---- MODULE Spec2Model ----
(***************************************************************************)
(* telegram-cron: a scheduling daemon that runs scripts on cron schedules  *)
(* and forwards their output to Telegram (src/telegram_cron_service.py).   *)
(*                                                                         *)
(* Time is in whole seconds.  Captured output is kept run-length encoded   *)
(* (a sequence of runs of one character), so that the 3000 and 1000        *)
(* character limits of the message keep their real values.                 *)
(***************************************************************************)
EXTENDS Integers, Sequences, FiniteSets, TLC

VARIABLES
    pc,          \* position of the process: boot, ready, scan, exec, shutdown, done, crashed, killed
    clock,       \* datetime.now(), in seconds
    config,      \* the parsed YAML configuration
    jobs,        \* TelegramCronService.jobs: the CronJob objects in insertion order
    idx,         \* position of the for-loop of run() in jobs
    running,     \* TelegramCronService.running
    sent,        \* the messages handed to TelegramNotifier.send_message, in order
    delivered,   \* the return value of the last send_message
    proc,        \* what the script of the execution in progress (or the last one) does
    result,      \* the last (exit_code, stdout, stderr) returned by ScriptExecutor.execute
    cur,         \* the registry position of the last call of CronJob.execute (0: none)
    outcome,     \* how that call ended: none, running, returned, raised, killed
    notes,       \* the messages sent for that call (by it, and by run() about it)
    ref,         \* per registry position, now in the last calculate_next_run that returned
    runs,        \* per registry position, the number of calls of CronJob.execute
    interrupted  \* where a KeyboardInterrupt was received: no, startup, scan, exec, sleep

vars == <<pc, clock, config, jobs, idx, running, sent, delivered, proc, result,
          cur, outcome, notes, ref, runs, interrupted>>

----------------------------------------------------------------------------
(* Bounds of the model *)

\* the clock never passes MaxTime seconds
MaxTime == 200
\* how many minutes ahead a next occurrence is searched
SearchMinutes == 2
\* how many times CronJob.execute raises in one run of the service
MaxRaises == 1

(* Constants of the program *)

SleepSeconds == 30
DefaultTimeout == 300
StdoutLimit == 3000
StderrLimit == 1000
SyntheticStatus == -1
MinuteSeconds == 60
MinutesPerHour == 60
\* last_run = None
NoTime == -1

----------------------------------------------------------------------------
(* Strings, run-length encoded *)

Run(c, n) == [c |-> c, n |-> n]

\* a literal without repeated adjacent characters
Lit(chars) == [i \in 1..Len(chars) |-> Run(chars[i], 1)]

RECURSIVE StrLen(_)
StrLen(s) == IF s = <<>> THEN 0 ELSE s[1].n + StrLen(Tail(s))

\* s[:k]
RECURSIVE Take(_, _)
Take(s, k) ==
    IF s = <<>> \/ k <= 0 THEN <<>>
    ELSE IF s[1].n >= k THEN <<Run(s[1].c, k)>>
    ELSE <<s[1]>> \o Take(Tail(s), k - s[1].n)

IsSpace(c) == c \in {" ", "\n", "\t"}

RECURSIVE LStrip(_)
LStrip(s) == IF s # <<>> /\ IsSpace(s[1].c) THEN LStrip(Tail(s)) ELSE s

RECURSIVE RStrip(_)
RStrip(s) ==
    IF s # <<>> /\ IsSpace(s[Len(s)].c) THEN RStrip(SubSeq(s, 1, Len(s) - 1)) ELSE s

\* str.strip()
Strip(s) == RStrip(LStrip(s))

NOUPDATE == Lit(<<"N", "O", "U", "P", "D", "A", "T", "E">>)

----------------------------------------------------------------------------
(* croniter: the cron expressions the configurations use *)

\* croniter(schedule) accepts the expression (it has five fields)
IsValidCron(expr) == expr \in {"* * * * *", "*/2 * * * *", "0 0 30 2 *"}

\* a date that does not exist is taken as a wildcard
MatchesLenient(expr, m) ==
    CASE expr = "* * * * *" -> TRUE
      [] expr = "*/2 * * * *" -> (m % MinutesPerHour) % 2 = 0
      [] OTHER -> TRUE

\* minute number m (minutes since the epoch of the clock) matches the expression
Matches(expr, m) ==
    CASE expr = "* * * * *" -> TRUE
      [] expr = "*/2 * * * *" -> (m % MinutesPerHour) % 2 = 0
      [] OTHER -> FALSE

\* the minutes after instant t that get_next looks at
NextMinutesGE(t) ==
    ((t + MinuteSeconds - 1) \div MinuteSeconds) .. (t \div MinuteSeconds + SearchMinutes)

NextMinutes(t) ==
    (t \div MinuteSeconds + 1) .. (t \div MinuteSeconds + SearchMinutes)

\* get_next finds an occurrence (otherwise it raises CroniterBadDateError)
HasNext(expr, t) == \E m \in NextMinutes(t) : Matches(expr, m)

\* croniter(expr, t).get_next(datetime)
CronNext(expr, t) ==
    LET m == CHOOSE m \in NextMinutes(t) :
                 /\ Matches(expr, m)
                 /\ \A k \in NextMinutes(t) : Matches(expr, k) => m <= k
    IN  m * MinuteSeconds

----------------------------------------------------------------------------
(* The environment: files on disk, what each script does, the configurations *)

\* a fixed text of n characters, kept as one piece
Word(w, n) == <<[c |-> w, n |-> n]>>

Hello == <<Run("h", 1), Run("e", 1), Run("l", 2), Run("o", 1)>>
Boom == Lit(<<"b", "a", "d">>)

\* os.path.exists(self.script)
Files == {"hello.sh", "check.sh", "fail.sh", "slow.sh", "locked.sh", "any.sh"}

Exit(code, out, err) == [kind |-> "exit", code |-> code, out |-> out, err |-> err]
\* the process is still running when the timeout expires; out and err are what
\* it has written by then
Hang(out, err) == [kind |-> "timeout", code |-> 0, out |-> out, err |-> err]
\* subprocess.run raises before the process runs (OSError)
LaunchFailure(text) == [kind |-> "launchfail", code |-> 0, out |-> <<>>, err |-> text]

\* captured output of every shape the message rules tell apart
AnyStdout ==
    { <<>>, Hello, NOUPDATE,
      <<Run(" ", 1)>> \o NOUPDATE \o <<Run("\n", 1)>>,
      <<Run("\t", 1), Run("\n", 2)>> \o NOUPDATE \o <<Run(" ", 2)>>,
      <<Run(" ", StdoutLimit)>> \o NOUPDATE,
      NOUPDATE \o <<Run("!", 1)>>,
      Lit(<<"N", "O", " ", "U", "P", "D", "A", "T", "E">>),
      <<Run("a", StdoutLimit - 1)>>,
      <<Run("a", StdoutLimit)>>,
      <<Run("a", StdoutLimit + 1)>>,
      <<Run("a", StdoutLimit - 1), Run("b", 2)>> }

AnyStderr ==
    { <<>>, Boom, <<Run("e", StderrLimit)>>, <<Run("e", StderrLimit + 1)>>,
      <<Run("e", StderrLimit - 1), Run("f", 2)>> }

AnyBehaviours ==
    { Exit(code, out, err) : code \in {0, 1, SyntheticStatus}, out \in AnyStdout,
                             err \in AnyStderr }
    \cup { Hang(NOUPDATE, Boom), LaunchFailure(Word("[Errno 13] Permission denied", 28)) }

\* what a run of each script may do
Behaviours(script) ==
    CASE script = "hello.sh" -> {Exit(0, Hello, <<>>)}
      [] script = "check.sh" ->
             {Exit(0, <<Run(" ", 1)>> \o NOUPDATE \o <<Run("\n", 1)>>, <<>>),
              Exit(1, NOUPDATE, Boom),
              Exit(0, Hello, Boom)}
      [] script = "fail.sh" -> {Exit(1, <<>>, Boom), Exit(2, Hello, <<>>)}
      [] script = "slow.sh" -> {Hang(Hello, <<>>)}
      [] script = "locked.sh" -> {LaunchFailure(Word("[Errno 13] Permission denied", 28))}
      [] script = "any.sh" -> AnyBehaviours
      [] OTHER -> {}

\* how long a run takes, in seconds
RunTimes(beh, timeout) ==
    CASE beh.kind = "timeout" -> {timeout}
      [] beh.kind = "launchfail" -> {0}
      [] OTHER -> {d \in {0, SleepSeconds} : d < timeout}

\* how long time.sleep(30) takes: 30 seconds, or longer when the process is held up
SleepTimes == {SleepSeconds, SleepSeconds + 2 * MinuteSeconds}

\* the job definitions the configurations are made of
JobConfig(name) ==
    CASE name = "hello" ->
             [schedule |-> "* * * * *", script |-> "hello.sh", send_errors |-> FALSE]
      [] name = "check" ->
             [schedule |-> "*/2 * * * *", script |-> "check.sh"]
      [] name = "fail" ->
             [schedule |-> "* * * * *", script |-> "fail.sh", send_errors |-> FALSE]
      [] name = "slow" ->
             [schedule |-> "* * * * *", script |-> "slow.sh", timeout |-> 60]
      [] name = "locked" ->
             [schedule |-> "*/2 * * * *", script |-> "locked.sh"]
      [] name = "off" ->
             [schedule |-> "* * * * *", script |-> "hello.sh", enabled |-> FALSE]
      [] name = "fourfields" ->
             [schedule |-> "* * * *", script |-> "hello.sh"]
      [] name = "nofile" ->
             [schedule |-> "* * * * *", script |-> "missing.sh"]
      [] name = "feb30" ->
             [schedule |-> "0 0 30 2 *", script |-> "hello.sh"]
      [] name = "report" ->
             [schedule |-> "* * * * *", script |-> "any.sh", timeout |-> 60]
      [] name = "quiet" ->
             [schedule |-> "* * * * *", script |-> "any.sh", timeout |-> 60,
              send_errors |-> FALSE]

Telegram == [bot_token |-> "token", chat_id |-> "chat"]

\* the configuration files the service is started with; jobs is the mapping of
\* the file in the order it is written
Configs ==
    { [telegram |-> Telegram, jobs |-> js] :
          js \in { <<"hello">>,
                   <<"fourfields", "hello">>,
                   <<"hello", "nofile">>,
                   <<"check", "fail">>,
                   <<"slow", "off">>,
                   <<"feb30", "locked">> } }
    \cup { [telegram |-> Telegram],
           [jobs |-> <<"hello">>],
           [telegram |-> [bot_token |-> "token"], jobs |-> <<"hello">>],
           [telegram |-> [chat_id |-> "chat"], jobs |-> <<"hello">>] }

StartTimes == {0, 20}

\* dict.get(key, default)
Get(d, key, default) == IF key \in DOMAIN d THEN d[key] ELSE default

----------------------------------------------------------------------------
(* TelegramNotifier and the messages *)

Message(kind, job, stdout, errors, exit_code, count) ==
    [kind |-> kind, job |-> job, stdout |-> stdout, errors |-> errors,
     exit_code |-> exit_code, count |-> count]

\* the text run() sends before the loop: "Monitoring {len(self.jobs)} job(s)"
StartedMessage(n) == Message("startup", "", <<>>, <<>>, <<>>, <<n>>)
\* the text shutdown() sends
StoppedMessage == Message("shutdown", "", <<>>, <<>>, <<>>, <<>>)
\* the text run() sends when job.execute raises: "Job Execution Error: {job_name}"
ErrorMessage(name) == Message("error", name, <<>>, <<>>, <<>>, <<>>)

\* the number of error reports among the messages
RECURSIVE ErrorCount(_)
ErrorCount(log) ==
    IF log = <<>> THEN 0
    ELSE (IF Head(log).kind = "error" THEN 1 ELSE 0) + ErrorCount(Tail(log))

\* send_message: the message goes to the Telegram API; it returns True or False
\* and never raises
send_message(log, message) == Append(log, message)

----------------------------------------------------------------------------
(* ScriptExecutor *)

\* f"Script execution timed out after {timeout} seconds"
TimeoutText(timeout) ==
    Word("Script execution timed out after ", 33)
        \o Word(ToString(timeout), IF timeout < 10 THEN 1 ELSE IF timeout < 100 THEN 2 ELSE 3)
        \o Word(" seconds", 8)

\* a timeout reported with exit status 0
ExecuteTimeoutAsSuccess(beh, timeout) ==
    CASE beh.kind = "exit" ->
             [exit_code |-> beh.code, stdout |-> beh.out, stderr |-> beh.err]
      [] beh.kind = "timeout" ->
             [exit_code |-> 0, stdout |-> <<>>, stderr |-> TimeoutText(timeout)]
      [] beh.kind = "launchfail" ->
             [exit_code |-> SyntheticStatus, stdout |-> <<>>, stderr |-> beh.err]

\* a launch failure reported without the text of the exception
ExecuteLaunchFailureSilent(beh, timeout) ==
    CASE beh.kind = "exit" ->
             [exit_code |-> beh.code, stdout |-> beh.out, stderr |-> beh.err]
      [] beh.kind = "timeout" ->
             [exit_code |-> SyntheticStatus, stdout |-> <<>>,
              stderr |-> TimeoutText(timeout)]
      [] beh.kind = "launchfail" ->
             [exit_code |-> SyntheticStatus, stdout |-> <<>>, stderr |-> <<>>]

\* ScriptExecutor.execute: (exit_code, stdout, stderr)
ScriptExecutor_execute(beh, timeout) ==
    CASE beh.kind = "exit" ->
             [exit_code |-> beh.code, stdout |-> beh.out, stderr |-> beh.err]
      [] beh.kind = "timeout" ->
             [exit_code |-> SyntheticStatus, stdout |-> <<>>,
              stderr |-> TimeoutText(timeout)]
      [] beh.kind = "launchfail" ->
             [exit_code |-> SyntheticStatus, stdout |-> <<>>, stderr |-> beh.err]

----------------------------------------------------------------------------
(* CronJob *)

\* CronJob.__init__ returns (it raises ValueError, or calculate_next_run raises)
CanConstruct(cfg, now) ==
    /\ IsValidCron(cfg.schedule)
    /\ cfg.script \in Files
    /\ HasNext(cfg.schedule, now)

\* CronJob.__init__
NewCronJob(name, cfg, now) ==
    [name |-> name,
     schedule |-> cfg.schedule,
     script |-> cfg.script,
     timeout |-> Get(cfg, "timeout", DefaultTimeout),
     enabled |-> Get(cfg, "enabled", TRUE),
     send_errors |-> Get(cfg, "send_errors", TRUE),
     args |-> Get(cfg, "args", <<>>),
     last_run |-> NoTime,
     next_run |-> CronNext(cfg.schedule, now)]

\* the next run computed from a clock that is two minutes behind the instant of execution
calculate_next_run_behind(job, now) ==
    [job EXCEPT !.next_run = CronNext(job.schedule, now - 2 * MinuteSeconds)]

\* CronJob.calculate_next_run
calculate_next_run(job, now) == [job EXCEPT !.next_run = CronNext(job.schedule, now)]

should_run_late(job, now) == job.enabled /\ job.next_run # NoTime /\ now > job.next_run

\* the job runs only at the instant of next_run itself
should_run_exact(job, now) == job.enabled /\ job.next_run # NoTime /\ now = job.next_run

\* CronJob.should_run
should_run(job, now) == job.enabled /\ job.next_run # NoTime /\ now >= job.next_run

SuppressedExact(stdout) == stdout = NOUPDATE

\* stdout.strip() == "NOUPDATE"
Suppressed(stdout) == Strip(stdout) = NOUPDATE

StdoutPartWhole(stdout) == IF stdout # <<>> THEN <<stdout>> ELSE <<>>

\* if stdout: message += stdout[:3000]
StdoutPart(stdout) == IF stdout # <<>> THEN <<Take(stdout, StdoutLimit)>> ELSE <<>>

ErrorsPartOnFailure(res, send_errors) ==
    IF res.stderr # <<>> /\ res.exit_code # 0
    THEN <<Take(res.stderr, StderrLimit)>> ELSE <<>>

\* if stderr and (exit_code != 0 or self.send_errors): message += stderr[:1000]
ErrorsPart(res, send_errors) ==
    IF res.stderr # <<>> /\ (res.exit_code # 0 \/ send_errors)
    THEN <<Take(res.stderr, StderrLimit)>> ELSE <<>>

\* the exit-code line in every message
ExitCodePartAlways(exit_code) == <<exit_code>>

\* if exit_code != 0: message += exit_code
ExitCodePart(exit_code) == IF exit_code # 0 THEN <<exit_code>> ELSE <<>>

\* the message CronJob.execute composes
JobMessage(job, res) ==
    Message("job", job.name, StdoutPart(res.stdout), ErrorsPart(res, job.send_errors),
            ExitCodePart(res.exit_code), <<>>)

\* no message for an execution that wrote nothing
NotifyIfOutput(log, job, res) ==
    IF Suppressed(res.stdout) \/ (res.stdout = <<>> /\ res.stderr = <<>>) THEN log
    ELSE send_message(log, JobMessage(job, res))

\* the notifier's log after CronJob.execute has handled the result
Notify(log, job, res) ==
    IF Suppressed(res.stdout) THEN log ELSE send_message(log, JobMessage(job, res))

----------------------------------------------------------------------------
(* TelegramCronService *)

\* the validation without the test of chat_id
ConfigValidLax(cfg) ==
    /\ "telegram" \in DOMAIN cfg
    /\ "bot_token" \in DOMAIN cfg.telegram

\* load_config returns the configuration (it raises ValueError otherwise)
ConfigValid(cfg) ==
    /\ "telegram" \in DOMAIN cfg
    /\ "bot_token" \in DOMAIN cfg.telegram
    /\ "chat_id" \in DOMAIN cfg.telegram

\* the try statement around the whole loop: the first bad definition ends it
RECURSIVE LoadEachUntilError(_, _)
LoadEachUntilError(names, now) ==
    IF names = <<>> \/ ~CanConstruct(JobConfig(Head(names)), now) THEN <<>>
    ELSE <<NewCronJob(Head(names), JobConfig(Head(names)), now)>>
             \o LoadEachUntilError(Tail(names), now)

\* the loop of load_jobs over the definitions
RECURSIVE LoadEach(_, _)
LoadEach(names, now) ==
    IF names = <<>> THEN <<>>
    ELSE (IF CanConstruct(JobConfig(Head(names)), now)
          THEN <<NewCronJob(Head(names), JobConfig(Head(names)), now)>>
          ELSE <<>>) \o LoadEach(Tail(names), now)

\* TelegramCronService.load_jobs
load_jobs(cfg, now) == IF "jobs" \notin DOMAIN cfg THEN <<>> ELSE LoadEach(cfg.jobs, now)

Init ==
    /\ pc = "boot"
    /\ clock \in StartTimes
    /\ config \in Configs
    /\ jobs = <<>>
    /\ idx = 1
    /\ running = FALSE
    /\ sent = <<>>
    /\ delivered = TRUE
    /\ proc = <<>>
    /\ result = <<>>
    /\ cur = 0
    /\ outcome = "none"
    /\ notes = <<>>
    /\ ref = <<>>
    /\ runs = <<>>
    /\ interrupted = "no"

\* TelegramCronService.__init__ when load_config raises: main() ends with the error
ConfigError ==
    /\ pc = "boot"
    /\ ~ConfigValid(config)
    /\ pc' = "crashed"
    /\ UNCHANGED <<clock, config, jobs, idx, running, sent, delivered, proc, result,
                   cur, outcome, notes, ref, runs, interrupted>>

\* TelegramCronService.__init__
Construct ==
    /\ pc = "boot"
    /\ ConfigValid(config)
    /\ jobs' = load_jobs(config, clock)
    /\ ref' = [i \in 1..Len(jobs') |-> clock]
    /\ runs' = [i \in 1..Len(jobs') |-> 0]
    /\ pc' = "ready"
    /\ UNCHANGED <<clock, config, idx, running, sent, delivered, proc, result,
                   cur, outcome, notes, interrupted>>

\* the startup message counts the definitions of the configuration
StartupCountsDefinitions ==
    /\ pc = "ready"
    /\ sent' = send_message(sent, StartedMessage(Len(Get(config, "jobs", <<>>))))
    /\ delivered' \in BOOLEAN
    /\ running' = TRUE
    /\ idx' = 1
    /\ pc' = "scan"
    /\ UNCHANGED <<clock, config, jobs, proc, result, cur, outcome, notes, ref, runs,
                   interrupted>>

\* run() up to the loop: the startup message, running = True
Startup ==
    /\ pc = "ready"
    /\ sent' = send_message(sent, StartedMessage(Len(jobs)))
    /\ delivered' \in BOOLEAN
    /\ running' = TRUE
    /\ idx' = 1
    /\ pc' = "scan"
    /\ UNCHANGED <<clock, config, jobs, proc, result, cur, outcome, notes, ref, runs,
                   interrupted>>

\* a KeyboardInterrupt in run() before the try statement (while the startup
\* message is being posted): it is not caught, the process ends
InterruptStartup ==
    /\ pc = "ready"
    /\ pc' = "killed"
    /\ interrupted' = "startup"
    /\ \E posted \in BOOLEAN :
           sent' = IF posted THEN send_message(sent, StartedMessage(Len(jobs))) ELSE sent
    /\ UNCHANGED <<clock, config, jobs, idx, running, delivered, proc, result,
                   cur, outcome, notes, ref, runs>>

\* the for-loop of run() at a job that should not run
Skip ==
    /\ pc = "scan"
    /\ idx <= Len(jobs)
    /\ ~should_run(jobs[idx], clock)
    /\ idx' = idx + 1
    /\ UNCHANGED <<pc, clock, config, jobs, running, sent, delivered, proc, result,
                   cur, outcome, notes, ref, runs, interrupted>>

\* last_run is not set when the execution starts
StartKeepsLastRun ==
    /\ pc = "scan"
    /\ idx <= Len(jobs)
    /\ should_run(jobs[idx], clock)
    /\ runs' = [runs EXCEPT ![idx] = @ + 1]
    /\ \E beh \in Behaviours(jobs[idx].script) : proc' = <<beh>>
    /\ result' = <<>>
    /\ cur' = idx
    /\ outcome' = "running"
    /\ notes' = <<>>
    /\ pc' = "exec"
    /\ UNCHANGED <<clock, config, jobs, idx, running, sent, delivered, ref, interrupted>>

\* the script is started and the loop goes on without waiting for it
StartAsync ==
    /\ pc = "scan"
    /\ idx <= Len(jobs)
    /\ should_run(jobs[idx], clock)
    /\ jobs' = [jobs EXCEPT ![idx].last_run = clock]
    /\ runs' = [runs EXCEPT ![idx] = @ + 1]
    /\ \E beh \in Behaviours(jobs[idx].script) : proc' = <<beh>>
    /\ result' = <<>>
    /\ cur' = idx
    /\ outcome' = "running"
    /\ notes' = <<>>
    /\ idx' = idx + 1
    /\ UNCHANGED <<pc, clock, config, running, sent, delivered, ref, interrupted>>

\* the for-loop of run() at a job that should run: CronJob.execute up to the
\* start of the script
Start ==
    /\ pc = "scan"
    /\ idx <= Len(jobs)
    /\ should_run(jobs[idx], clock)
    /\ jobs' = [jobs EXCEPT ![idx].last_run = clock]
    /\ runs' = [runs EXCEPT ![idx] = @ + 1]
    /\ \E beh \in Behaviours(jobs[idx].script) : proc' = <<beh>>
    /\ result' = <<>>
    /\ cur' = idx
    /\ outcome' = "running"
    /\ notes' = <<>>
    /\ pc' = "exec"
    /\ UNCHANGED <<clock, config, idx, running, sent, delivered, ref, interrupted>>

\* the next run of every job is computed at the end of an execution
FinishReschedulesAll ==
    /\ pc = "exec"
    /\ \E d \in RunTimes(proc[1], jobs[idx].timeout) :
           /\ clock + d <= MaxTime
           /\ clock' = clock + d
    /\ LET res == ScriptExecutor_execute(proc[1], jobs[idx].timeout)
       IN  /\ result' = <<res>>
           /\ notes' = Notify(<<>>, jobs[idx], res)
           /\ sent' = Notify(sent, jobs[idx], res)
           /\ delivered' \in (IF Suppressed(res.stdout) THEN {delivered} ELSE BOOLEAN)
    /\ jobs' = [i \in DOMAIN jobs |-> calculate_next_run(jobs[i], clock')]
    /\ ref' = [ref EXCEPT ![idx] = clock']
    /\ outcome' = "returned"
    /\ idx' = idx + 1
    /\ pc' = "scan"
    /\ UNCHANGED <<config, running, proc, cur, runs, interrupted>>

\* the next run is computed only when the message has been delivered
FinishReschedulesOnDelivery ==
    /\ pc = "exec"
    /\ \E d \in RunTimes(proc[1], jobs[idx].timeout) :
           /\ clock + d <= MaxTime
           /\ clock' = clock + d
    /\ LET res == ScriptExecutor_execute(proc[1], jobs[idx].timeout)
       IN  /\ result' = <<res>>
           /\ notes' = Notify(<<>>, jobs[idx], res)
           /\ sent' = Notify(sent, jobs[idx], res)
           /\ delivered' \in (IF Suppressed(res.stdout) THEN {delivered} ELSE BOOLEAN)
           /\ jobs' = IF Suppressed(res.stdout) \/ delivered'
                      THEN [jobs EXCEPT ![idx] = calculate_next_run(@, clock')]
                      ELSE jobs
    /\ ref' = [ref EXCEPT ![idx] = clock']
    /\ outcome' = "returned"
    /\ idx' = idx + 1
    /\ pc' = "scan"
    /\ UNCHANGED <<config, running, proc, cur, runs, interrupted>>

\* CronJob.execute from the end of the script: the result, the message, the
\* next run
Finish ==
    /\ pc = "exec"
    /\ \E d \in RunTimes(proc[1], jobs[idx].timeout) :
           /\ clock + d <= MaxTime
           /\ clock' = clock + d
    /\ LET res == ScriptExecutor_execute(proc[1], jobs[idx].timeout)
       IN  /\ result' = <<res>>
           /\ notes' = Notify(<<>>, jobs[idx], res)
           /\ sent' = Notify(sent, jobs[idx], res)
           /\ delivered' \in (IF Suppressed(res.stdout) THEN {delivered} ELSE BOOLEAN)
    /\ jobs' = [jobs EXCEPT ![idx] = calculate_next_run(@, clock')]
    /\ ref' = [ref EXCEPT ![idx] = clock']
    /\ outcome' = "returned"
    /\ idx' = idx + 1
    /\ pc' = "scan"
    /\ UNCHANGED <<config, running, proc, cur, runs, interrupted>>

\* no try statement around job.execute: the exception leaves the loop
ExecuteRaisesEndsLoop ==
    /\ pc = "exec"
    /\ ErrorCount(sent) < MaxRaises
    /\ outcome' = "raised"
    /\ pc' = "shutdown"
    /\ UNCHANGED <<clock, config, jobs, idx, running, sent, delivered, proc, result,
                   cur, notes, ref, runs, interrupted>>

\* CronJob.execute raises before it has a result: run() reports the error and
\* goes on with the next job
ExecuteRaises ==
    /\ pc = "exec"
    /\ ErrorCount(sent) < MaxRaises
    /\ notes' = <<ErrorMessage(jobs[idx].name)>>
    /\ sent' = send_message(sent, ErrorMessage(jobs[idx].name))
    /\ delivered' \in BOOLEAN
    /\ outcome' = "raised"
    /\ idx' = idx + 1
    /\ pc' = "scan"
    /\ UNCHANGED <<clock, config, jobs, running, proc, result, cur, ref, runs,
                   interrupted>>

\* CronJob.execute raises in calculate_next_run, after the message: run()
\* reports the error and goes on with the next job
RescheduleRaises ==
    /\ pc = "exec"
    /\ ErrorCount(sent) < MaxRaises
    /\ \E d \in RunTimes(proc[1], jobs[idx].timeout) :
           /\ clock + d <= MaxTime
           /\ clock' = clock + d
    /\ LET res == ScriptExecutor_execute(proc[1], jobs[idx].timeout)
       IN  /\ result' = <<res>>
           /\ notes' = send_message(Notify(<<>>, jobs[idx], res),
                                    ErrorMessage(jobs[idx].name))
           /\ sent' = send_message(Notify(sent, jobs[idx], res),
                                   ErrorMessage(jobs[idx].name))
    /\ delivered' \in BOOLEAN
    /\ outcome' = "raised"
    /\ idx' = idx + 1
    /\ pc' = "scan"
    /\ UNCHANGED <<config, jobs, running, proc, cur, ref, runs, interrupted>>

\* time.sleep(30) after the for-loop, then the next iteration of the while-loop
Sleep ==
    /\ pc = "scan"
    /\ idx > Len(jobs)
    /\ running
    /\ \E d \in SleepTimes :
           /\ clock + d <= MaxTime
           /\ clock' = clock + d
    /\ idx' = 1
    /\ UNCHANGED <<pc, config, jobs, running, sent, delivered, proc, result,
                   cur, outcome, notes, ref, runs, interrupted>>

\* the handler around job.execute catches the interrupt as well (a bare except)
InterruptSwallowed ==
    /\ pc \in {"scan", "exec"}
    /\ interrupted = "no"
    /\ interrupted' = IF pc = "exec" THEN "exec"
                      ELSE IF idx > Len(jobs) THEN "sleep" ELSE "scan"
    /\ IF pc = "exec"
       THEN /\ outcome' = "raised"
            /\ notes' = <<ErrorMessage(jobs[idx].name)>>
            /\ sent' = send_message(sent, ErrorMessage(jobs[idx].name))
            /\ idx' = idx + 1
            /\ pc' = "scan"
       ELSE /\ pc' = "shutdown"
            /\ UNCHANGED <<outcome, notes, sent, idx>>
    /\ UNCHANGED <<clock, config, jobs, running, delivered, proc, result, cur, ref,
                   runs>>

\* a KeyboardInterrupt inside the try statement of run(): in the for-loop, in
\* job.execute (the script is killed, nothing is sent for it) or in time.sleep
Interrupt ==
    /\ pc \in {"scan", "exec"}
    /\ interrupted' = IF pc = "exec" THEN "exec"
                      ELSE IF idx > Len(jobs) THEN "sleep" ELSE "scan"
    /\ outcome' = IF pc = "exec" THEN "killed" ELSE outcome
    /\ pc' = "shutdown"
    /\ UNCHANGED <<clock, config, jobs, idx, running, sent, delivered, proc, result,
                   cur, notes, ref, runs>>

\* TelegramCronService.shutdown, from the finally clause of run()
Shutdown ==
    /\ pc = "shutdown"
    /\ running' = FALSE
    /\ sent' = send_message(sent, StoppedMessage)
    /\ delivered' \in BOOLEAN
    /\ pc' = "done"
    /\ UNCHANGED <<clock, config, jobs, idx, proc, result, cur, outcome, notes, ref,
                   runs, interrupted>>

Next ==
    \/ ConfigError
    \/ Construct
    \/ Startup
    \/ InterruptStartup
    \/ Skip
    \/ Start
    \/ Finish
    \/ ExecuteRaises
    \/ RescheduleRaises
    \/ Sleep
    \/ Interrupt
    \/ Shutdown

Spec == Init /\ [][Next]_vars

\* the finally clause of run() runs as soon as the interrupt is caught
FairSpec == Spec /\ WF_vars(Shutdown)

\* run() is one thread that goes on with its next statement: the startup, the
\* for-loop over the jobs, the end of an execution, the sleep
LoopStep ==
    Startup \/ Skip \/ Start \/ Finish \/ ExecuteRaises \/ RescheduleRaises \/ Sleep

\* the service keeps running as long as it is not interrupted
LiveSpec == Spec /\ WF_vars(LoopStep)

----------------------------------------------------------------------------
(* The message rules of CronJob.execute on their own: one job, started when  *)
(* it became due, whose script may do anything                              *)

InitPolicy ==
    /\ pc = "exec"
    /\ clock = MinuteSeconds
    /\ \E name \in {"report", "quiet"} :
           /\ config = [telegram |-> Telegram, jobs |-> <<name>>]
           /\ jobs = <<[NewCronJob(name, JobConfig(name), 0)
                           EXCEPT !.last_run = MinuteSeconds]>>
    /\ idx = 1
    /\ running = TRUE
    /\ sent = <<StartedMessage(1)>>
    /\ delivered = TRUE
    /\ proc \in {<<beh>> : beh \in AnyBehaviours}
    /\ result = <<>>
    /\ cur = 1
    /\ outcome = "running"
    /\ notes = <<>>
    /\ ref = <<0>>
    /\ runs = <<1>>
    /\ interrupted = "no"

SpecPolicy == InitPolicy /\ [][Finish]_vars

----------------------------------------------------------------------------
(* Properties *)

Min(a, b) == IF a <= b THEN a ELSE b

\* p is the beginning of s
IsPrefix(p, s) ==
    \/ p = <<>>
    \/ /\ Len(p) <= Len(s)
       /\ \A i \in 1..(Len(p) - 1) : p[i] = s[i]
       /\ p[Len(p)].c = s[Len(p)].c
       /\ p[Len(p)].n <= s[Len(p)].n

\* the messages of the last call of CronJob.execute that come from its result
JobNotes == SelectSeq(notes, LAMBDA m : m.kind = "job")

\* the number of shutdown messages among the messages sent
RECURSIVE StoppedCount(_)
StoppedCount(log) ==
    IF log = <<>> THEN 0
    ELSE (IF Head(log).kind = "shutdown" THEN 1 ELSE 0) + StoppedCount(Tail(log))

\* the interrupt was received inside the loop of run()
LoopInterrupted == interrupted \in {"scan", "exec", "sleep"}

(* C1: every next_run a job holds, computed at load or after an execution, is
   strictly later than the instant it was computed from, never equal to it, so
   the job is not due at that instant. *)
C1_NextRunAfterReference ==
    \A i \in DOMAIN jobs :
        /\ jobs[i].next_run > ref[i]
        /\ ~(jobs[i].enabled /\ ref[i] >= jobs[i].next_run)

\* a job rescheduled exactly on a minute that matches its schedule
C1_Witness ==
    /\ outcome = "returned"
    /\ ref[cur] = jobs[cur].last_run
    /\ ref[cur] % MinuteSeconds = 0
    /\ jobs[cur].next_run = ref[cur] + MinuteSeconds

(* C2: an execution whose standard output, stripped of surrounding whitespace,
   is exactly NOUPDATE sends no message, whatever the exit status, the standard
   error and send_errors. *)
C2_NoUpdateSendsNothing ==
    (outcome = "returned" /\ Strip(result[1].stdout) = NOUPDATE) =>
        /\ notes = <<>>
        /\ sent = <<StartedMessage(1)>>

\* NOUPDATE inside whitespace, with a failing exit status, errors and send_errors
C2_Witness ==
    /\ outcome = "returned"
    /\ Strip(result[1].stdout) = NOUPDATE
    /\ result[1].stdout # NOUPDATE
    /\ result[1].exit_code # 0
    /\ result[1].stderr # <<>>
    /\ jobs[cur].send_errors
    /\ notes = <<>>

(* C3: a job examined by the loop is executed exactly when it is enabled and
   the clock has reached its next_run; nothing else starts an execution, and a
   disabled job is never executed. *)
C3_ExecutedIffDue ==
    [][ /\ (pc = "scan" /\ idx <= Len(jobs) /\ pc' \in {"scan", "exec"}) =>
               ((pc' = "exec" /\ runs'[idx] = runs[idx] + 1)
                    <=> (jobs[idx].enabled /\ clock >= jobs[idx].next_run))
        /\ \A i \in DOMAIN runs :
               runs'[i] # runs[i] =>
                   (pc = "scan" /\ i = idx /\ jobs[i].enabled
                        /\ clock >= jobs[i].next_run)
        /\ \A i \in DOMAIN jobs' :
               ~jobs'[i].enabled => (runs'[i] = 0 /\ jobs'[i].last_run = NoTime)
      ]_vars

\* a job is running that was started at the very instant of its next_run, and
\* a disabled job past its next_run has never run
C3_Witness ==
    /\ pc = "exec"
    /\ clock = jobs[idx].next_run
    /\ \E i \in DOMAIN jobs :
           ~jobs[i].enabled /\ clock > jobs[i].next_run /\ runs[i] = 0

(* C4, as the claim states it: the result of a script that ran into its
   timeout carries timed_out = true and a non-zero status, and exactly one
   message is sent for the execution. *)
C4_Original ==
    (outcome = "returned" /\ proc[1].kind = "timeout") =>
        /\ "timed_out" \in DOMAIN result[1]
        /\ result[1].timed_out
        /\ result[1].exit_code # 0
        /\ Len(JobNotes) = 1

(* C4, amended: the execution ends when the timeout expires, its result is the
   status -1 with an empty standard output and the timeout text as standard
   error (there is no timed_out field), and exactly one message is sent for
   the execution, with the error text and the exit code. *)
C4_TimeoutResult ==
    (outcome \in {"returned", "raised"} /\ result # <<>> /\ proc[1].kind = "timeout") =>
        /\ DOMAIN result[1] = {"exit_code", "stdout", "stderr"}
        /\ result[1].exit_code = SyntheticStatus
        /\ result[1].exit_code # 0
        /\ result[1].stdout = <<>>
        /\ result[1].stderr = TimeoutText(jobs[cur].timeout)
        /\ Len(JobNotes) = 1
        /\ JobNotes[1].job = jobs[cur].name
        /\ JobNotes[1].errors = <<result[1].stderr>>
        /\ JobNotes[1].exit_code = <<SyntheticStatus>>
        /\ (outcome = "returned" =>
               /\ notes = JobNotes
               /\ ref[cur] = jobs[cur].last_run + jobs[cur].timeout)

\* a script that had written output ran into the timeout of its job
C4_Witness ==
    /\ outcome = "returned"
    /\ proc[1].kind = "timeout"
    /\ proc[1].out # <<>>
    /\ Len(notes) = 1
    /\ clock = jobs[cur].last_run + jobs[cur].timeout

(* C5, as the claim states it: a composed message has the error section exactly
   when the exit status is non-zero or send_errors is true. *)
C5_Original ==
    (outcome = "returned" /\ JobNotes # <<>>) =>
        ((JobNotes[1].errors # <<>>)
             <=> (result[1].exit_code # 0 \/ jobs[cur].send_errors))

(* C5, amended: a composed message has the error section exactly when the
   standard error is not empty and (the exit status is non-zero or send_errors
   is true); the section is the first min(length, 1000) characters of the
   standard error. *)
C5_ErrorSection ==
    (outcome = "returned" /\ JobNotes # <<>>) =>
        /\ (JobNotes[1].errors # <<>>)
               <=> /\ result[1].stderr # <<>>
                   /\ (result[1].exit_code # 0 \/ jobs[cur].send_errors)
        /\ JobNotes[1].errors # <<>> =>
               /\ IsPrefix(JobNotes[1].errors[1], result[1].stderr)
               /\ StrLen(JobNotes[1].errors[1])
                      = Min(StrLen(result[1].stderr), StderrLimit)

\* errors of 1001 characters of a successful run, sent because of send_errors
C5_Witness ==
    /\ outcome = "returned"
    /\ JobNotes # <<>>
    /\ result[1].exit_code = 0
    /\ jobs[cur].send_errors
    /\ StrLen(result[1].stderr) = StderrLimit + 1
    /\ StrLen(JobNotes[1].errors[1]) = StderrLimit

(* C6: the standard-output part of a composed message is the first
   min(length, 3000) characters of the standard output and nothing more:
   3001 characters become the first 3000, 3000 characters stay as they are. *)
C6_StdoutPart ==
    (outcome = "returned" /\ JobNotes # <<>>) =>
        /\ (JobNotes[1].stdout # <<>>) <=> (result[1].stdout # <<>>)
        /\ JobNotes[1].stdout # <<>> =>
               /\ IsPrefix(JobNotes[1].stdout[1], result[1].stdout)
               /\ StrLen(JobNotes[1].stdout[1])
                      = Min(StrLen(result[1].stdout), StdoutLimit)
               /\ (StrLen(result[1].stdout) <= StdoutLimit =>
                       JobNotes[1].stdout[1] = result[1].stdout)

\* 3001 characters, the last one different, cut to the first 3000
C6_Witness ==
    /\ outcome = "returned"
    /\ JobNotes # <<>>
    /\ StrLen(result[1].stdout) = StdoutLimit + 1
    /\ JobNotes[1].stdout = <<<<Run("a", StdoutLimit - 1), Run("b", 1)>>>>

(* C7: when the execution of a job raises, the loop catches it, sends exactly
   one error report that names the job, and goes on with the next job of the
   same tick; the service keeps running. *)
C7_RaiseIsContained ==
    [][(outcome = "running" /\ outcome' = "raised") =>
           /\ pc' = "scan"
           /\ idx' = idx + 1
           /\ running'
           /\ interrupted' = "no"
           /\ [i \in DOMAIN jobs' |-> jobs'[i].name] = [i \in DOMAIN jobs |-> jobs[i].name]
           /\ ErrorCount(sent') = ErrorCount(sent) + 1
           /\ sent'[Len(sent')] = ErrorMessage(jobs[idx].name)
           /\ ErrorCount(notes') = 1
      ]_vars

\* the second job runs in the tick in which the first job raised, and in a
\* later tick the first job has run again
C7_Witness ==
    /\ Len(jobs) = 2
    /\ ErrorCount(sent) = 1
    /\ \E k \in DOMAIN sent :
           /\ sent[k] = ErrorMessage(jobs[1].name)
           /\ k < Len(sent)
           /\ sent[k + 1].kind = "job"
           /\ sent[k + 1].job = jobs[2].name
    /\ runs[2] >= 1
    /\ runs[1] >= 2
    /\ pc = "exec"

\* a definition whose schedule has occurrences and whose script exists
ValidDefinition(name) ==
    /\ JobConfig(name).schedule \in {"* * * * *", "*/2 * * * *"}
    /\ JobConfig(name).script \in Files

(* C8: the registry built from a configuration holds exactly its valid job
   definitions, in the order of the configuration: an invalid definition
   (schedule that does not parse, script that does not exist) is dropped and
   drops nothing else. *)
C8_RegistryIsValidJobs ==
    pc \notin {"boot", "crashed"} =>
        [i \in DOMAIN jobs |-> jobs[i].name]
            = (IF "jobs" \in DOMAIN config
               THEN SelectSeq(config.jobs, ValidDefinition) ELSE <<>>)

\* the valid job that follows an invalid one has been loaded and has run
C8_Witness ==
    /\ "jobs" \in DOMAIN config
    /\ config.jobs = <<"fourfields", "hello">>
    /\ Len(jobs) = 1
    /\ jobs[1].name = "hello"
    /\ outcome = "returned"
    /\ Len(JobNotes) = 1

(* C9, as the claim states it: a job is executed once for all the occurrences
   that have passed, and after a run it is not executed again before a new
   occurrence of its schedule, later than that run, has passed. *)
C9_Original ==
    [][(pc = "scan" /\ pc' = "exec") =>
           \E m \in 0..(clock \div MinuteSeconds) :
               /\ Matches(jobs[idx].schedule, m)
               /\ m * MinuteSeconds > jobs[idx].last_run
               /\ m * MinuteSeconds <= clock
      ]_vars

(* C10: an interrupt received inside the loop (in the scan, in a job execution
   or in the sleep) ends in shutdown: no execution starts after it, exactly one
   shutdown message is sent, and it is the last message of the run. *)
C10_InterruptShutsDown ==
    /\ [](LoopInterrupted =>
              /\ pc \in {"shutdown", "done"}
              /\ outcome # "running"
              /\ (pc = "shutdown" => StoppedCount(sent) = 0)
              /\ (pc = "done" =>
                      /\ StoppedCount(sent) = 1
                      /\ sent[Len(sent)] = StoppedMessage
                      /\ ~running))
    /\ [][interrupted # "no" =>
              (runs' = runs /\ pc' # "exec" /\ interrupted' = interrupted)]_vars
    /\ (LoopInterrupted ~> (pc = "done"))

\* the interrupt came while a script was running
C10_Witness ==
    /\ pc = "done"
    /\ interrupted = "exec"
    /\ outcome = "killed"
    /\ notes = <<>>
    /\ sent[Len(sent)] = StoppedMessage

(* C11: over any sequence of load, tick and execution steps the next_run of a
   job never decreases: every step leaves it unchanged or replaces it by a
   value that is greater than or equal to the one it replaces. *)
C11_NextRunNeverDecreases ==
    [][\A i \in DOMAIN jobs :
           i \in DOMAIN jobs' => jobs'[i].next_run >= jobs[i].next_run]_vars

\* a job has run twice, so that its next_run has been replaced twice
C11_Witness ==
    /\ outcome = "returned"
    /\ runs[cur] >= 2
    /\ jobs[cur].next_run > jobs[cur].last_run
    /\ jobs[cur].next_run >= 3 * MinuteSeconds

(* C12, as the claim states it: after every execution attempt, whatever its
   outcome (a result or an exception raised inside the attempt), next_run has
   been recomputed relative to the execution instant before the next job is
   examined, so that it lies after the instant the attempt started at. *)
C12_Original ==
    (outcome \in {"returned", "raised"}) => jobs[cur].next_run > jobs[cur].last_run

\* t is the first instant after now that the schedule matches
IsFirstOccurrenceAfter(schedule, now, t) ==
    /\ t > now
    /\ t % MinuteSeconds = 0
    /\ Matches(schedule, t \div MinuteSeconds)
    /\ \A m \in 0..(t \div MinuteSeconds) :
           (m * MinuteSeconds > now /\ m * MinuteSeconds < t) => ~Matches(schedule, m)

(* C13: a delivery that fails does not raise into the loop and does not affect
   scheduling: whatever send_message returns (delivered' is its return value),
   a step that sends a message goes on as the code after the call prescribes.
   After the startup message the loop is entered with the registry as loaded;
   after the message of an execution the job keeps its last_run, its next_run
   is the first occurrence after the end of the execution, no other job and no
   run count changes and the scan goes on with the next job; after the shutdown
   message the service is done. The step appends exactly one job message, so
   that nothing is sent again or kept for later. *)
C13_DeliveryDoesNotAffectScheduling ==
    [][\A ok \in BOOLEAN :
         (Len(sent') > Len(sent) /\ delivered' = ok /\ interrupted' = interrupted) =>
           /\ (pc = "ready" => (pc' = "scan" /\ running' /\ jobs' = jobs /\ runs' = runs))
           /\ (pc = "exec" =>
                  /\ pc' = "scan"
                  /\ idx' = idx + 1
                  /\ runs' = runs
                  /\ running' = running
                  /\ \A i \in DOMAIN jobs : i # idx => jobs'[i] = jobs[i]
                  /\ jobs'[idx].last_run = jobs[idx].last_run
                  /\ (outcome' = "returned" =>
                         /\ sent' = Append(sent, notes'[1])
                         /\ Len(notes') = 1
                         /\ notes'[1].kind = "job"
                         /\ notes'[1].job = jobs[idx].name
                         /\ IsFirstOccurrenceAfter(jobs[idx].schedule, clock',
                                                   jobs'[idx].next_run)))
           /\ (pc = "shutdown" => (pc' = "done" /\ jobs' = jobs /\ runs' = runs))
      ]_vars

\* the message of an execution was not delivered and the scan has gone on
C13_Witness ==
    /\ outcome = "returned"
    /\ Len(notes) = 1
    /\ sent[Len(sent)] = notes[1]
    /\ ~delivered
    /\ pc = "scan"
    /\ running
    /\ idx = cur + 1
    /\ jobs[cur].next_run > clock

(* C14: a failure to launch the process of a job is reported like a timeout.
   The executor returns for it (no exception is needed to leave the call): the
   result has the synthetic status -1, no standard output and the text of the
   failure as standard error. The execution ends with exactly one message, a
   job message with that text and the exit-code line and no error report of
   the loop, and the loop keeps running. *)
C14_LaunchFailureIsReported ==
    /\ (pc = "exec" /\ proc[1].kind = "launchfail") => ENABLED Finish
    /\ (outcome = "returned" /\ proc[1].kind = "launchfail") =>
           /\ result[1].exit_code = SyntheticStatus
           /\ result[1].exit_code # 0
           /\ result[1].stdout = <<>>
           /\ result[1].stderr = proc[1].err
           /\ result[1].stderr # <<>>
           /\ Len(notes) = 1
           /\ notes[1].kind = "job"
           /\ notes[1].job = jobs[cur].name
           /\ notes[1].errors = <<Take(proc[1].err, StderrLimit)>>
           /\ notes[1].exit_code = <<SyntheticStatus>>
           /\ pc \in {"scan", "shutdown", "done"}
           /\ (pc = "scan" => running)
           /\ jobs[cur].next_run > jobs[cur].last_run

\* the launch failure has been reported and the loop has slept and come back
C14_Witness ==
    /\ outcome = "returned"
    /\ proc[1].kind = "launchfail"
    /\ Len(notes) = 1
    /\ notes[1].exit_code = <<SyntheticStatus>>
    /\ pc = "scan"
    /\ running
    /\ clock > ref[cur]

\* the configuration has the telegram section with bot_token and chat_id
HasCredentials ==
    /\ "telegram" \in DOMAIN config
    /\ {"bot_token", "chat_id"} \subseteq DOMAIN config.telegram

(* C15: a configuration without the telegram section, bot_token or chat_id
   aborts startup: the service never gets past construction, no registry is
   built, the loop is not entered, no job is executed and no message of any
   kind is sent. Conversely startup is aborted for no other reason, and the
   process ends only on an interrupt, never on the error of a job (a bad
   definition, a failing script, an exception in an execution). *)
C15_ConfigErrorAbortsStartup ==
    /\ ~HasCredentials =>
           /\ pc \in {"boot", "crashed"}
           /\ jobs = <<>>
           /\ runs = <<>>
           /\ outcome = "none"
           /\ sent = <<>>
           /\ ~running
    /\ (pc = "boot" /\ ~HasCredentials) => (ENABLED ConfigError /\ ~ENABLED Construct)
    /\ pc = "crashed" => ~HasCredentials
    /\ pc \in {"killed", "shutdown", "done"} => interrupted # "no"

\* started with a telegram section that has no chat_id
C15_Witness ==
    /\ pc = "crashed"
    /\ "telegram" \in DOMAIN config
    /\ "chat_id" \notin DOMAIN config.telegram
    /\ "jobs" \in DOMAIN config
    /\ jobs = <<>>
    /\ sent = <<>>

\* the startup messages among the messages
StartupNotes(log) == SelectSeq(log, LAMBDA m : m.kind = "startup")

(* C16: on every successful startup exactly one startup message is sent; it
   states the number of jobs in the registry (the definitions that failed to
   load are not counted); it is sent after the registry is built and before any
   job is executed, so it is the first message and precedes every message of a
   job. *)
C16_OneStartupMessage ==
    /\ Len(StartupNotes(sent)) <= 1
    /\ pc \in {"boot", "crashed", "ready"} =>
           /\ sent = <<>>
           /\ \A i \in DOMAIN runs : runs[i] = 0
    /\ pc \in {"scan", "exec", "shutdown", "done"} =>
           /\ Len(StartupNotes(sent)) = 1
           /\ sent[1].kind = "startup"
           /\ sent[1].count = <<Len(jobs)>>
    /\ (\E i \in DOMAIN runs : runs[i] > 0) => (sent # <<>> /\ sent[1].kind = "startup")

\* one of two definitions was loaded, and its job has sent a message
C16_Witness ==
    /\ pc = "scan"
    /\ "jobs" \in DOMAIN config
    /\ Len(config.jobs) = 2
    /\ Len(jobs) = 1
    /\ sent[1].count = <<1>>
    /\ Len(sent) >= 2
    /\ sent[2].kind = "job"

\* the messages of executions among the messages
JobMessages(log) == SelectSeq(log, LAMBDA m : m.kind = "job")

\* the service runs with the one job hello: enabled, "* * * * *", send_errors
\* false, a script that writes hello and exits 0
HelloScenario ==
    /\ pc \notin {"boot", "crashed"}
    /\ config = [telegram |-> Telegram, jobs |-> <<"hello">>]

(* C17: with the one enabled job hello ("* * * * *", send_errors false, the
   script writes hello and exits 0) there is no job message before the first
   minute boundary after the start (the service starts in the first minute, so
   the boundary is at 60 seconds); the first tick at or after the boundary
   executes the job, and once that execution has returned exactly one job
   message has been produced: it names the job, contains hello, and has no
   error section and no exit-code line. *)
C17_HelloEndToEnd ==
    HelloScenario =>
        /\ Len(jobs) = 1
        /\ jobs[1].enabled /\ ~jobs[1].send_errors
        /\ clock < MinuteSeconds => (runs[1] = 0 /\ JobMessages(sent) = <<>>)
        /\ runs[1] = 0 => JobMessages(sent) = <<>>
        /\ (pc = "scan" /\ idx > Len(jobs) /\ clock >= MinuteSeconds) => runs[1] >= 1
        /\ (runs[1] = 1 /\ outcome = "returned") => Len(JobMessages(sent)) = 1
        /\ \A k \in DOMAIN JobMessages(sent) :
               /\ JobMessages(sent)[k].job = "hello"
               /\ JobMessages(sent)[k].stdout = <<Hello>>
               /\ JobMessages(sent)[k].errors = <<>>
               /\ JobMessages(sent)[k].exit_code = <<>>

\* started at 20: the tick at 80 is the first after the boundary
C17_Witness ==
    /\ HelloScenario
    /\ pc = "scan"
    /\ idx = 2
    /\ clock = MinuteSeconds + 20
    /\ runs[1] = 1
    /\ outcome = "returned"
    /\ Len(JobMessages(sent)) = 1
    /\ Len(sent) = 2

(* C18, as the claim states it: when a process is terminated for exceeding
   its timeout, the result returns the standard output the process had written
   before the termination, together with the message that describes the
   timeout. *)
C18_Original ==
    (result # <<>> /\ proc[1].kind = "timeout") =>
        /\ result[1].stdout = proc[1].out
        /\ result[1].stderr # <<>>

(* C19: every execution that is not suppressed produces exactly one message;
   the message names the job; it has the exit-code line, with the exit status,
   if and only if the exit status is not 0 (the synthetic status -1 included);
   the message is produced also when standard output and standard error are
   both empty. *)
C19_OneMessagePerExecution ==
    (outcome = "returned" /\ Strip(result[1].stdout) # NOUPDATE) =>
        /\ Len(notes) = 1
        /\ sent = <<StartedMessage(1), notes[1]>>
        /\ notes[1].kind = "job"
        /\ notes[1].job = jobs[cur].name
        /\ (notes[1].exit_code # <<>>) <=> (result[1].exit_code # 0)
        /\ notes[1].exit_code \in {<<>>, <<result[1].exit_code>>}

\* exit status 0 and nothing written: the message has the name only
C19_Witness ==
    /\ outcome = "returned"
    /\ result[1] = [exit_code |-> 0, stdout |-> <<>>, stderr |-> <<>>]
    /\ Len(notes) = 1
    /\ notes[1] = Message("job", jobs[cur].name, <<>>, <<>>, <<>>, <<>>)

(* C20: in every tick the jobs are examined in the order of the registry, from
   the first to the last, and executions never overlap: an execution is in
   progress only while the loop is inside that one call of execute, and an
   execution starts only from the scan, when no execution is in progress; an
   earlier job that was executed in the same tick has by then its message sent
   and its next_run recomputed. *)
C20_SequentialInRegistryOrder ==
    /\ []((outcome = "running") <=> (pc = "exec"))
    /\ [](pc = "exec" => (cur = idx /\ idx \in DOMAIN jobs /\ result = <<>>))
    /\ [][idx' # idx =>
              \/ (idx <= Len(jobs) /\ idx' = idx + 1)
              \/ (idx > Len(jobs) /\ idx' = 1)]_vars
    /\ [][(pc # "boot" /\ runs' # runs) =>
              /\ pc = "scan"
              /\ outcome # "running"
              /\ pc' = "exec"
              /\ outcome' = "running"
              /\ runs' = [runs EXCEPT ![idx] = @ + 1]
              /\ \A i \in 1..(idx - 1) :
                     ref[i] = clock =>
                         IsFirstOccurrenceAfter(jobs[i].schedule, clock, jobs[i].next_run)
      ]_vars

\* the second job is running; the first was executed in the same tick and has
\* been rescheduled at this instant
C20_Witness ==
    /\ pc = "exec"
    /\ idx = 2
    /\ outcome = "running"
    /\ runs[1] >= 1
    /\ ref[1] = clock
    /\ jobs[1].last_run # NoTime
    /\ jobs[1].last_run + SleepSeconds >= clock
    /\ jobs[1].next_run > clock
    /\ Len(JobMessages(sent)) >= 1

(* C21: last_run of a job is null from load until the first execution attempt
   of that job and is set only by an execution attempt of that job: in every
   state last_run is not null if and only if the job has been executed at least
   once; it is then the instant of an attempt, never after the clock; a job
   that is never due to run, such as a disabled job, keeps last_run null; and
   last_run changes only in the step that starts an execution of that job. *)
C21_LastRunIffExecuted ==
    /\ [](\A i \in DOMAIN jobs :
              /\ (jobs[i].last_run # NoTime) <=> (runs[i] >= 1)
              /\ jobs[i].last_run # NoTime => (0 <= jobs[i].last_run /\ jobs[i].last_run <= clock)
              /\ ~jobs[i].enabled => jobs[i].last_run = NoTime)
    /\ [][\A i \in DOMAIN jobs :
              (i \in DOMAIN jobs' /\ jobs'[i].last_run # jobs[i].last_run) =>
                  /\ pc = "scan" /\ pc' = "exec"
                  /\ i = idx
                  /\ jobs'[i].last_run = clock
                  /\ runs'[i] = runs[i] + 1]_vars

\* the first job has been executed; the second is disabled, its next_run has
\* passed and its last_run is still null
C21_Witness ==
    /\ Len(jobs) = 2
    /\ jobs[1].last_run # NoTime
    /\ runs[1] >= 1
    /\ ~jobs[2].enabled
    /\ clock >= jobs[2].next_run + MinuteSeconds
    /\ jobs[2].last_run = NoTime
    /\ runs[2] = 0

\* the well-formed schedules of the configurations that no instant matches
ImpossibleSchedules == {"0 0 30 2 *"}

(* C22: a job whose schedule has five well-formed fields but no matching
   instant (day 30 of February) fails when it is loaded and is not in the
   registry; every job of the registry has a next_run and a schedule with an
   occurrence after the current instant, after its next_run and after the last
   instant of the run, so that the recomputation of next_run after an
   execution finds one. *)
C22_ImpossibleScheduleFailsAtLoad ==
    /\ \A i \in DOMAIN jobs :
           /\ jobs[i].schedule \notin ImpossibleSchedules
           /\ jobs[i].name # "feb30"
           /\ jobs[i].next_run # NoTime
           /\ \A t \in {clock, jobs[i].next_run, MaxTime} :
                  \E m \in (t \div MinuteSeconds + 1)..(t \div MinuteSeconds + SearchMinutes) :
                      jobs[i].schedule \in {"* * * * *", "*/2 * * * *"}
                      /\ (jobs[i].schedule = "*/2 * * * *" => m % 2 = 0)
    /\ (pc \notin {"boot", "crashed"} /\ "jobs" \in DOMAIN config) =>
           Len(jobs) = Cardinality({k \in DOMAIN config.jobs :
                                       /\ JobConfig(config.jobs[k]).schedule
                                              \in {"* * * * *", "*/2 * * * *"}
                                       /\ JobConfig(config.jobs[k]).script \in Files})
    /\ (pc = "exec" /\ clock + MinuteSeconds <= MaxTime) => ENABLED Finish

\* the definition with day 30 of February was left out at load; the other job
\* of the configuration has run and has been rescheduled
C22_Witness ==
    /\ "jobs" \in DOMAIN config
    /\ config.jobs = <<"feb30", "locked">>
    /\ Len(jobs) = 1
    /\ jobs[1].name = "locked"
    /\ outcome = "returned"
    /\ runs[1] >= 1
    /\ jobs[1].next_run > clock

\* job i of the registry is enabled and the clock has reached its next_run
Due(i) ==
    /\ pc \in {"ready", "scan", "exec"}
    /\ i \in DOMAIN jobs
    /\ jobs[i].enabled
    /\ jobs[i].next_run # NoTime
    /\ clock >= jobs[i].next_run

\* the clock is within a minute of the last instant of the run
LastMinute == clock + MinuteSeconds > MaxTime

(* C23: if a job of the registry is enabled and the clock has reached its
   next_run, the job is eventually executed, unless the service is interrupted
   (executions end, the loop goes on: the fairness of LiveSpec); this holds for
   each job of a registry whose jobs are due together. It is stated for the
   instants that leave a minute of the run, the time the rest of the tick and
   the sleep may take before the job is examined again. *)
C23_DueJobIsExecuted ==
    \A i \in 1..2 :
        (Due(i) /\ ~LastMinute) ~> (\/ (pc = "exec" /\ idx = i)
                                    \/ interrupted # "no")

\* two jobs are due at once; the second is running after the first has run
C23_Witness ==
    /\ Len(jobs) = 2
    /\ pc = "exec"
    /\ idx = 2
    /\ interrupted = "no"
    /\ ~LastMinute
    /\ jobs[1].enabled
    /\ jobs[1].last_run # NoTime
    /\ ref[1] = clock
    /\ jobs[2].last_run = clock
    /\ clock >= jobs[2].next_run + SleepSeconds

\* the fields of a job that come from its definition
DefinitionOf(job) ==
    [name |-> job.name, schedule |-> job.schedule, script |-> job.script,
     timeout |-> job.timeout, enabled |-> job.enabled,
     send_errors |-> job.send_errors, args |-> job.args]

(* C24: after load no step (tick, execution, message, sleep, interrupt,
   shutdown) changes the names of the registry, their order, or the definition
   fields of a job (schedule, script, timeout, enabled, send_errors, args); the
   last_run and next_run of a job change only in a step of the execution of
   that job: last_run when it starts, next_run when it ends. *)
C24_ExecutionChangesOnlyItsJob ==
    [][pc # "boot" =>
          /\ DOMAIN jobs' = DOMAIN jobs
          /\ \A i \in DOMAIN jobs :
                 /\ DefinitionOf(jobs'[i]) = DefinitionOf(jobs[i])
                 /\ jobs'[i].last_run # jobs[i].last_run =>
                        (i = idx /\ pc = "scan" /\ pc' = "exec"
                         /\ jobs'[i].next_run = jobs[i].next_run)
                 /\ jobs'[i].next_run # jobs[i].next_run =>
                        (i = idx /\ pc = "exec" /\ pc' = "scan"
                         /\ jobs'[i].last_run = jobs[i].last_run)]_vars

\* the second job has been executed and rescheduled now; the first, executed
\* earlier, has kept its own last_run and next_run
C24_Witness ==
    /\ Len(jobs) = 2
    /\ cur = 2
    /\ outcome = "returned"
    /\ ref[2] = clock
    /\ pc = "scan"
    /\ idx = 3
    /\ jobs[1].last_run # NoTime
    /\ jobs[1].last_run < jobs[2].last_run
    /\ jobs[1].enabled
    /\ jobs[1].next_run # jobs[2].next_run

====
